---- MODULE Spec2Model ----
(***************************************************************************)
(* Payment routes of the Mallgram backend (POST /payments/initialize and   *)
(* POST /payments/webhook), the five gateway adapters they dispatch to,    *)
(* and the payments / orders tables they read and write.                   *)
(*                                                                         *)
(* Every request is a process that advances from one await to the next;    *)
(* each action below is the code that runs between two awaits, so requests *)
(* interleave exactly where the event loop lets them.                      *)
(*                                                                         *)
(* Strings that the code splits on '_' are modelled as the sequence of     *)
(* their '_'-separated tokens: `mg_${order.id}_${Date.now()}` is the       *)
(* sequence <<"mg", order.id, timestamp>>, an order id is <<order.id>>.    *)
(***************************************************************************)
EXTENDS Integers, Sequences, FiniteSets, TLC

\* ---------------------------------------------------------------- bounds
MaxClock == 2        \* values Date.now() takes
MaxRequests == 3     \* HTTP requests received in one behaviour
MaxSerialRequests == 4 \* the same, when requests are handled one at a time
MaxQueryRequests == 3  \* the same, when status and verify requests are sent too
NumSlots == 2        \* requests in flight at the same time

\* ------------------------------------------------------- the environment
OrderIds == {"o1"}
Users == {"u1", "u2"}
OrderOwner(o) == "u1"

\* req.user.country of each user
Countries == {"CM", "ZA"}
UserCountry(u) == IF u = "u1" THEN "CM" ELSE "ZA"
Slots == 1..NumSlots

Methods == {"kora", "mtn", "orange", "paygate", "payfast"}

\* keys a sender can have used to compute the signature it attaches:
\* the provider's shared secret, some other key, or no signature at all
SenderKeys == {"none", "secret", "wrong"}

\* ------------------------------------------------------------- id strings
Reference(o, t) == <<"mg", o, ToString(t)>>
PaymentIds == {Reference(o, t) : o \in OrderIds, t \in 1..MaxClock}
NoId == <<>>

VARIABLES
    now,        \* Date.now()
    secrets,    \* process.env holds the providers' webhook secrets / keys
    node_env,   \* process.env.NODE_ENV
    orders,     \* orders table: id -> row
    payments,   \* payments table: id -> row (domain = ids inserted)
    emails,     \* emailService.sendOrderConfirmationEmail invocations,
                \* counted per payment whose webhook triggered them
    affiliate_stats, \* affiliate_stats rows inserted, counted per order
    started,    \* requests received so far
    req,        \* per slot: the request being handled and its live locals
    last        \* the handler step just taken: what the request was, what
                \* the step did, and the response if it sent one

vars == <<now, secrets, node_env, orders, payments, emails, affiliate_stats, started, req, last>>

\* ------------------------------------------------------------- responses
NoRes == [status |-> 0, error |-> "", data |-> ""]
Ok200 == [status |-> 200, error |-> "", data |-> ""]
Err(code, msg) == [status |-> code, error |-> msg, data |-> ""]
\* An Error that is not an AppError, as errorHandler answers it: status 500,
\* and in production the message replaced by a fixed one
ServerError(msg) ==
    Err(500, IF node_env = "production" THEN "An internal server error occurred" ELSE msg)
\* res.json({ success: true, data: ... }), reduced to the status it reports
OkData(d) == [status |-> 200, error |-> "", data |-> d]

\* a handler's locals that are still read after the current await
IdleReq == [kind |-> "none", pc |-> "idle", caller |-> "", order |-> "",
            method |-> "", payment_id |-> NoId, status |-> ""]

NoStep == [kind |-> "none", step |-> "",
           order_payment_status |-> "", status |-> "",
           sender |-> "", attempt_status |-> "", attempt_own |-> FALSE,
           foreign |-> FALSE, parsed_row |-> FALSE,
           called |-> FALSE, inserted |-> FALSE, applied |-> FALSE,
           finished |-> FALSE, res |-> NoRes]

\* a new request takes the first free slot
Free(r) ==
    /\ req[r].pc = "idle"
    /\ \A q \in Slots : q < r => req[q].pc # "idle"

\* the handler in slot r goes on to its next await
Continue(r, rec, step) ==
    /\ req' = [req EXCEPT ![r] = rec]
    /\ last' = step

\* the handler in slot r sends its response and ends
Finish(r, step, response) ==
    /\ req' = [req EXCEPT ![r] = IdleReq]
    /\ last' = [step EXCEPT !.finished = TRUE, !.res = response]

\* ------------------------------------------------------------------ Init
Init ==
    /\ now = 1
    /\ secrets = TRUE
    /\ node_env = "production"
    /\ orders = [o \in OrderIds |->
                    [user_id |-> OrderOwner(o), payment_status |-> "pending",
                     status |-> "pending"]]
    /\ payments = <<>>
    /\ emails = [p \in PaymentIds |-> 0]
    /\ affiliate_stats = [o \in OrderIds |-> 0]
    /\ started = 0
    /\ req = [r \in Slots |-> IdleReq]
    /\ last = NoStep

Tick ==
    /\ now < MaxClock
    /\ now' = now + 1
    /\ last' = NoStep
    /\ UNCHANGED <<secrets, node_env, orders, payments, emails, affiliate_stats, started, req>>

\* ------------------------------------------- POST /payments/initialize
\* the state check left out
OrderPayable_Always(order) == TRUE

\* the order's payment must still be open
OrderPayable(order) == order.payment_status = "pending"

\* the phone number asked of MTN payments only
NeedsPhone_MtnOnly(payment_method) == payment_method = "mtn"

NeedsPhone(payment_method) == payment_method \in {"mtn", "orange"}

\* GET /payments/methods: the method ids listed for a country
PaymentMethods(country) ==
    CASE country = "ZA" -> {"paygate", "payfast", "kora"}
      [] country = "CM" -> {"orange", "mtn", "kora"}
      [] OTHER -> {}

OrangeIsAvailableInCountry(country) ==
    country \in {"CM", "SN", "ML", "BF", "CI", "NE", "MG"}
PayGateIsAvailableInCountry(country) == country = "ZA"
PayFastIsAvailableInCountry(country) == country = "ZA"

\* a method is available where /methods lists it and its adapter, if it
\* has an isAvailableInCountry, agrees
IsAvailableInCountry(m, country) ==
    /\ m \in PaymentMethods(country)
    /\ m = "orange" => OrangeIsAvailableInCountry(country)
    /\ m = "paygate" => PayGateIsAvailableInCountry(country)
    /\ m = "payfast" => PayFastIsAvailableInCountry(country)

\* paymentResult.transaction_id of each adapter's initializePayment
InitTransactionId(m, reference) ==
    CASE m = "kora" -> <<"kora-ref">>         \* result.data.reference
      [] m = "mtn" -> reference               \* paymentData.externalId
      [] m = "orange" -> <<"pay-token">>      \* result.pay_token
      [] m = "paygate" -> <<"pay-request-id">>
      [] OTHER -> reference                   \* payfast: reference

\* validation, order lookup, state check, and the start of the adapter call
InitializeReceive(r, caller, order_id, payment_method, phone_number) ==
    /\ Free(r)
    /\ started' = started + 1
    /\ LET found == order_id \in OrderIds /\ orders[order_id].user_id = caller
           step == [NoStep EXCEPT !.kind = "initialize", !.step = "receive",
                                  !.foreign = (order_id \in OrderIds /\ ~found)]
       IN  IF order_id = "" \/ payment_method = ""
           THEN Finish(r, step, Err(400, "Order ID and payment method are required"))
           ELSE IF ~found
           THEN Finish(r, step, Err(404, "Order not found"))
           ELSE LET order == orders[order_id]
                    step2 == [step EXCEPT !.order_payment_status = order.payment_status]
                IN  IF ~OrderPayable(order)
                    THEN Finish(r, step2, Err(400, "Order payment has already been processed"))
                    ELSE IF NeedsPhone(payment_method) /\ ~phone_number
                    THEN Finish(r, step2, Err(400, "Phone number is required for mobile money payments"))
                    ELSE IF payment_method \notin Methods
                    THEN Finish(r, step2, ServerError("Payment initialization failed: Unsupported payment method"))
                    ELSE Continue(r, [IdleReq EXCEPT !.kind = "initialize", !.pc = "gateway",
                                         !.caller = caller, !.order = order_id,
                                         !.method = payment_method],
                                  [step2 EXCEPT !.called = TRUE])
    /\ UNCHANGED <<now, secrets, node_env, orders, payments, emails, affiliate_stats>>

\* what the provider says when it refuses: error.response.data.message
ProviderDetails == {"Insufficient funds", "Invalid merchant"}

\* `Payment initialization failed: ${error.message}` for the adapter's error,
\* whose message carries the provider's
InitializationFailed(detail) ==
    IF detail = "Insufficient funds"
    THEN "Payment initialization failed: gateway error: Insufficient funds"
    ELSE "Payment initialization failed: gateway error: Invalid merchant"

\* the payment row persisted before the adapter is known to have accepted
InitializeGateway_PersistFirst(r, ok, detail) ==
    /\ req[r].kind = "initialize"
    /\ req[r].pc = "gateway"
    /\ LET step == [NoStep EXCEPT !.kind = "initialize", !.step = "gateway",
                                  !.called = TRUE]
           id == Reference(req[r].order, now)
       IN  /\ payments' = IF id \in DOMAIN payments THEN payments
                          ELSE payments @@ (id :>
                                 [order_id |-> req[r].order, user_id |-> req[r].caller,
                                  payment_method |-> req[r].method, status |-> "pending",
                                  gateway_transaction_id |-> NoId,
                                  gateway_response |-> <<req[r].method, "init">>,
                                  processed_at |-> 0])
           /\ IF ok
              THEN Finish(r, [step EXCEPT !.inserted = TRUE], Ok200)
              ELSE Finish(r, step, ServerError(InitializationFailed(detail)))
    /\ UNCHANGED <<now, secrets, node_env, orders, emails, affiliate_stats, started>>

\* the adapter's initializePayment returns a result or throws
InitializeGateway(r, ok, detail) ==
    /\ req[r].kind = "initialize"
    /\ req[r].pc = "gateway"
    /\ LET step == [NoStep EXCEPT !.kind = "initialize", !.step = "gateway",
                                  !.called = TRUE]
       IN  IF ok
           THEN Continue(r, [req[r] EXCEPT !.pc = "insert",
                                           !.payment_id = Reference(req[r].order, now)], step)
           ELSE Finish(r, step, ServerError(InitializationFailed(detail)))
    /\ UNCHANGED <<now, secrets, node_env, orders, payments, emails, affiliate_stats, started>>

\* supabase.from('payments').insert(...): the id is the primary key
InitializeInsert(r) ==
    /\ req[r].kind = "initialize"
    /\ req[r].pc = "insert"
    /\ LET id == req[r].payment_id
           step == [NoStep EXCEPT !.kind = "initialize", !.step = "insert",
                                  !.called = TRUE]
       IN  IF id \in DOMAIN payments
           THEN /\ Finish(r, step, ServerError("Payment initialization failed: Payment initialization failed"))
                /\ UNCHANGED payments
           ELSE /\ payments' = payments @@ (id :>
                      [order_id |-> req[r].order, user_id |-> req[r].caller,
                       payment_method |-> req[r].method, status |-> "pending",
                       gateway_transaction_id |-> InitTransactionId(req[r].method, id),
                       gateway_response |-> <<req[r].method, "init">>,
                       processed_at |-> 0])
                /\ Finish(r, [step EXCEPT !.inserted = TRUE], Ok200)
    /\ UNCHANGED <<now, secrets, node_env, orders, emails, affiliate_stats, started>>

\* initialize requests handled in the slots S, `budget` requests in all
Initialize(S, budget) ==
    \/ \E r \in S, caller \in Users, order_id \in OrderIds \cup {"", "nx"},
          payment_method \in Methods \cup {"", "bogus"}, phone_number \in BOOLEAN :
            /\ started < budget
            /\ InitializeReceive(r, caller, order_id, payment_method, phone_number)
    \/ \E r \in S, ok \in BOOLEAN :
          \E detail \in IF ok THEN {""} ELSE ProviderDetails : InitializeGateway(r, ok, detail)
    \/ \E r \in S : InitializeInsert(r)

\* ---------------------------------------------------- webhook signatures
\* a keyed digest is determined by algorithm, signed body and key, and
\* digests of different inputs differ
Digest(alg, body, key) == <<alg, body, key>>
NoSig == <<>>

\* process.env.<PROVIDER secret>: set, or undefined
EnvSecret == IF secrets THEN "secret" ELSE "undefined"

ProviderAlg(m) == IF m = "kora" THEN "hmac-sha512" ELSE "md5"

\* the signature a sender holding `key` attaches to `body` for provider m
SenderSignature(m, body, key) ==
    IF key = "none" THEN NoSig ELSE Digest(ProviderAlg(m), body, key)

\* KoraPayService.verifyWebhookSignature
KoraVerifyWebhookSignature(body, signature) ==
    IF EnvSecret = "undefined" THEN TRUE
    ELSE signature = Digest("hmac-sha512", body, EnvSecret)

\* OrangeService.verifyWebhookSignature
OrangeVerifyWebhookSignature(body, signature) ==
    IF EnvSecret = "undefined" THEN TRUE
    ELSE signature = Digest("md5", body, EnvSecret)

\* PayGateService.verifyChecksum: md5 over the sorted values + payGateKey
PayGateVerifyChecksum(body, checksum) ==
    checksum = Digest("md5", body, EnvSecret)

\* PayFastService.verifySignature: md5 over the parameter string, with the
\* passphrase appended only when one is configured
PayFastVerifySignature(body, signature) ==
    signature = Digest("md5", body, IF secrets THEN EnvSecret ELSE "")

\* ----------------------------------------------- adapters' handleWebhook
\* provider status codes each adapter can be sent
ProviderCodes(m) ==
    CASE m = "kora" -> {"charge.success", "charge.failed", "charge.other"}
      [] m = "mtn" -> {"SUCCESSFUL", "FAILED", "PENDING"}
      [] m = "orange" -> {"SUCCESS", "FAILED", "CANCELLED", "INITIATED"}
      [] m = "paygate" -> {"1", "2", "4", "0"}
      [] m = "payfast" -> {"COMPLETE", "FAILED", "CANCELLED", "PENDING"}
      [] OTHER -> {"any"}

NoUpdate == [payment_id |-> NoId, transaction_id |-> NoId, status |-> "",
             gateway_response |-> <<>>]

Thrown(msg) == [outcome |-> "throw", error |-> msg, update |-> NoUpdate]
Returned(id, txn, status, response) ==
    [outcome |-> "return", error |-> "",
     update |-> [payment_id |-> id, transaction_id |-> txn, status |-> status,
                 gateway_response |-> response]]
ReturnedNull == [outcome |-> "null", error |-> "", update |-> NoUpdate]

\* event.data.reference.split('_')[1]
KoraPaymentId(reference) == <<reference[2]>>

\* the payload of every provider carries the provider's status code, the
\* reference that initializePayment sent (payload.ref) and, for PayGate and
\* PayFast, the order id that initializePayment stored in USER1 / custom_str1
\* (payload.user1) and the checksum / signature field (payload.sig)
KoraHandleWebhook(payload, signature) ==
    IF ~KoraVerifyWebhookSignature(payload.body, signature)
    THEN Thrown("Invalid webhook signature")
    ELSE IF payload.code = "charge.success"
    THEN Returned(KoraPaymentId(payload.ref), payload.ref, "success", <<"kora", payload.code>>)
    ELSE IF payload.code = "charge.failed"
    THEN Returned(KoraPaymentId(payload.ref), payload.ref, "failed", <<"kora", payload.code>>)
    ELSE ReturnedNull

\* every other MTN status reported as a pending payment
MtnHandleWebhook_PendingDefault(payload, signature) ==
    IF payload.code = "SUCCESSFUL"
    THEN Returned(payload.ref, <<"financialTransactionId">>, "success", <<"mtn", payload.code>>)
    ELSE IF payload.code = "FAILED"
    THEN Returned(payload.ref, payload.ref, "failed", <<"mtn", payload.code>>)
    ELSE Returned(payload.ref, payload.ref, "pending", <<"mtn", payload.code>>)

MtnHandleWebhook(payload, signature) ==
    IF payload.code = "SUCCESSFUL"
    THEN Returned(payload.ref, <<"financialTransactionId">>, "success", <<"mtn", payload.code>>)
    ELSE IF payload.code = "FAILED"
    THEN Returned(payload.ref, payload.ref, "failed", <<"mtn", payload.code>>)
    ELSE ReturnedNull

OrangeHandleWebhook(payload, signature) ==
    IF signature # NoSig /\ ~OrangeVerifyWebhookSignature(payload.body, signature)
    THEN Thrown("Invalid webhook signature")
    ELSE IF payload.code = "SUCCESS"
    THEN Returned(payload.ref, <<"txnid">>, "success", <<"orange", payload.code>>)
    ELSE IF payload.code \in {"FAILED", "CANCELLED"}
    THEN Returned(payload.ref, <<"txnid">>, "failed", <<"orange", payload.code>>)
    ELSE ReturnedNull

PayGateHandleWebhook(payload, signature) ==
    IF ~PayGateVerifyChecksum(payload.body, payload.sig)
    THEN Thrown("Invalid PayGate checksum")
    ELSE Returned(payload.user1, <<"pay-request-id">>,
                  CASE payload.code = "1" -> "success"
                    [] payload.code = "2" -> "failed"
                    [] payload.code = "4" -> "cancelled"
                    [] OTHER -> "pending",
                  <<"paygate", payload.code>>)

\* validated: the answer of PayFast's /eng/query/validate is 'VALID'
PayFastHandleWebhook(payload, signature, validated) ==
    IF ~PayFastVerifySignature(payload.body, payload.sig)
    THEN Thrown("Invalid PayFast signature")
    ELSE IF ~validated
    THEN Thrown("Payment validation failed")
    ELSE Returned(payload.user1, <<"pf-payment-id">>,
                  CASE payload.code = "COMPLETE" -> "success"
                    [] payload.code \in {"FAILED", "CANCELLED"} -> "failed"
                    [] OTHER -> "pending",
                  <<"payfast", payload.code>>)

\* ---------------------------------------------- POST /payments/webhook
\* a request without a marker handed to the MTN adapter
HandleWebhook_DefaultRoute(headers, payload, validated) ==
    LET signature == IF headers.x_signature # NoSig THEN headers.x_signature
                     ELSE IF headers.marker = "kora" THEN headers.marker_value
                     ELSE NoSig
    IN  CASE headers.marker = "kora" -> KoraHandleWebhook(payload, signature)
          [] headers.marker = "orange" -> OrangeHandleWebhook(payload, signature)
          [] headers.marker = "paygate" -> PayGateHandleWebhook(payload, signature)
          [] headers.marker = "payfast" -> PayFastHandleWebhook(payload, signature, validated)
          [] OTHER -> MtnHandleWebhook(payload, signature)

\* headers.marker: which x-<provider>-signature header is present
\* headers.marker_value, headers.x_signature: the values of that header and
\* of x-signature
HandleWebhook(headers, payload, validated) ==
    LET signature == IF headers.x_signature # NoSig THEN headers.x_signature
                     ELSE IF headers.marker = "kora" THEN headers.marker_value
                     ELSE NoSig
    IN  CASE headers.marker = "kora" -> KoraHandleWebhook(payload, signature)
          [] headers.marker = "mtn" -> MtnHandleWebhook(payload, signature)
          [] headers.marker = "orange" -> OrangeHandleWebhook(payload, signature)
          [] headers.marker = "paygate" -> PayGateHandleWebhook(payload, signature)
          [] headers.marker = "payfast" -> PayFastHandleWebhook(payload, signature, validated)
          [] OTHER -> Thrown("Unknown webhook source")

\* `this` of the handler (an arrow function at module level) is the module's
\* initial exports object; processAffiliateCommission is a function declared
\* in module scope and never attached to it
ThisHasProcessAffiliateCommission == FALSE

\* orders that were placed with an affiliate promo code
HasAffiliatePromo(o) == o = "o1"

\* processAffiliateCommission(orderId): the affiliate_stats insert
ProcessAffiliateCommission(stats, o) ==
    IF HasAffiliatePromo(o) THEN [stats EXCEPT ![o] = @ + 1] ELSE stats

\* the order written with whatever terminal status the webhook reports
OrderUpdate_AnyStatus(order, status) ==
    IF status \in {"success", "failed"}
    THEN {[order EXCEPT !.payment_status = status,
                        !.status = IF status = "success" THEN "paid" ELSE @]}
    ELSE {}

\* the order marked paid without its payment status
OrderUpdate_PaidOnly(order, status) ==
    IF status = "success" THEN {[order EXCEPT !.status = "paid"]} ELSE {}

\* the order rows the handler writes after a payment update with `status`
OrderUpdate(order, status) ==
    IF status = "success"
    THEN {[order EXCEPT !.payment_status = "success", !.status = "paid"]}
    ELSE {}

\* the payments row written by the webhook update
PaymentUpdate(row, update, clock) ==
    [row EXCEPT !.status = update.status,
                !.gateway_transaction_id = update.transaction_id,
                !.gateway_response = update.gateway_response,
                !.processed_at = IF update.status = "success" THEN clock ELSE 0]

\* the update also matching the payments of the order with that id
UpdateMatches_ByOrder(id) ==
    IF id \in DOMAIN payments THEN {id}
    ELSE {p \in DOMAIN payments : <<payments[p].order_id>> = id}

\* rows that .update(...).eq('id', id) touches
UpdateMatches(id) == IF id \in DOMAIN payments THEN {id} ELSE {}

\* who sent a request, judged by the keys its signatures were computed with:
\* the provider's gateway (its signature, made with the shared secret, in the
\* provider's own header or field, no x-signature header, and a delivery that
\* PayFast's validation service confirms), some other holder of the secret,
\* or a sender without the secret
Sender(headers, payload, validated) ==
    IF payload.key = "secret" /\ payload.xkey = "none" /\ validated THEN "gateway"
    ELSE IF payload.key = "secret" \/ payload.xkey = "secret" THEN "keyed"
    ELSE "unkeyed"

\* The webhook arrives, is routed to its adapter, and the payments update
\* runs: supabase.from('payments').update(...).eq('id', ...).select().single().
\* handleWebhook reads nothing that other requests write, so its await is
\* folded into the step of the update it precedes.
WebhookUpdatePayment(r, headers, payload, validated) ==
    /\ Free(r)
    /\ started' = started + 1
    /\ LET result == HandleWebhook(headers, payload, validated)
           update == result.update
           step == [NoStep EXCEPT !.kind = "webhook", !.step = "update_payment",
                      !.sender = Sender(headers, payload, validated),
                      !.attempt_status = IF payload.ref \in DOMAIN payments
                                         THEN payments[payload.ref].status ELSE "",
                      !.attempt_own = (payload.ref \in DOMAIN payments
                                       /\ payments[payload.ref].payment_method = headers.marker),
                      !.status = IF result.outcome = "return" THEN update.status
                                 ELSE result.outcome,
                      !.parsed_row = update.payment_id \in DOMAIN payments]
       IN  IF result.outcome = "throw"
           THEN /\ Finish(r, step, Err(400, result.error))
                /\ UNCHANGED payments
           ELSE IF result.outcome = "null"
           THEN /\ Finish(r, step, Err(400, "Cannot read properties of null"))
                /\ UNCHANGED payments
           ELSE IF UpdateMatches(update.payment_id) = {}
           THEN /\ Finish(r, step, Err(400, "Failed to update payment record"))
                /\ UNCHANGED payments
           ELSE LET id == CHOOSE p \in UpdateMatches(update.payment_id) : TRUE
                    payment == PaymentUpdate(payments[id], update, now)
                    step2 == [step EXCEPT !.applied = TRUE]
                IN  /\ payments' = [payments EXCEPT ![id] = payment]
                    /\ IF OrderUpdate(orders[payment.order_id], update.status) = {}
                       THEN Finish(r, step2, Ok200)
                       ELSE Continue(r, [IdleReq EXCEPT !.kind = "webhook",
                                            !.pc = "update_order", !.payment_id = id,
                                            !.order = payment.order_id,
                                            !.status = update.status], step2)
    /\ UNCHANGED <<now, secrets, node_env, orders, emails, affiliate_stats>>

\* supabase.from('orders').update(...).eq('id', payment.order_id)
WebhookUpdateOrder(r) ==
    /\ req[r].kind = "webhook"
    /\ req[r].pc = "update_order"
    /\ LET o == req[r].order
       IN  orders' = [orders EXCEPT ![o] =
                        CHOOSE row \in OrderUpdate(orders[o], req[r].status) : TRUE]
    /\ Continue(r, [req[r] EXCEPT !.pc = "send_email"],
                [NoStep EXCEPT !.kind = "webhook", !.step = "update_order",
                               !.status = req[r].status, !.applied = TRUE])
    /\ UNCHANGED <<now, secrets, node_env, payments, emails, affiliate_stats, started>>

\* every order row joins a users row
OrderHasUser(o) == o \in OrderIds

\* a failed send answered as an error of the webhook
WebhookSendEmail_Propagates(r, sent) ==
    /\ req[r].kind = "webhook"
    /\ req[r].pc = "send_email"
    /\ emails' = [emails EXCEPT ![req[r].payment_id] = @ + 1]
    /\ UNCHANGED affiliate_stats
    /\ LET step == [NoStep EXCEPT !.kind = "webhook", !.step = "send_email",
                                  !.status = req[r].status, !.applied = TRUE]
       IN  IF sent
           THEN Finish(r, step, Err(400, "this.processAffiliateCommission is not a function"))
           ELSE Finish(r, step, Err(400, "Failed to send order confirmation email"))
    /\ UNCHANGED <<now, secrets, node_env, orders, payments, started>>

\* The order is read back with its user, emailService.sendOrderConfirmationEmail
\* is called (a failure is caught and logged), then
\* `await this.processAffiliateCommission(...)` runs and the response is sent.
WebhookSendEmail(r, sent) ==
    /\ req[r].kind = "webhook"
    /\ req[r].pc = "send_email"
    /\ IF OrderHasUser(req[r].order)
       THEN emails' = [emails EXCEPT ![req[r].payment_id] = @ + 1]
       ELSE UNCHANGED emails
    /\ LET step == [NoStep EXCEPT !.kind = "webhook", !.step = "send_email",
                                  !.status = req[r].status, !.applied = TRUE]
       IN  IF ThisHasProcessAffiliateCommission
           THEN /\ affiliate_stats' = ProcessAffiliateCommission(affiliate_stats, req[r].order)
                /\ Finish(r, step, Ok200)
           ELSE /\ UNCHANGED affiliate_stats
                /\ Finish(r, step, Err(400, "this.processAffiliateCommission is not a function"))
    /\ UNCHANGED <<now, secrets, node_env, orders, payments, started>>

\* x-signature is read by the Kora and Orange adapters only
ReadsXSignature(m) == m \in {"kora", "orange"}

\* requests the gateways and anyone else can send: the provider's marker
\* header, a body naming an attempt, and signatures computed with some key
WebhookRequestsOf(m) ==
    {[headers |-> [marker |-> m,
                   marker_value |-> IF key = "none" THEN <<"1">>
                                    ELSE SenderSignature(m, <<code, ref>>, key),
                   x_signature |-> SenderSignature(m, <<code, ref>>, xkey)],
      payload |-> [body |-> <<code, ref>>, code |-> code, ref |-> ref,
                   user1 |-> <<ref[2]>>,
                   sig |-> IF m \in {"paygate", "payfast"}
                           THEN SenderSignature(m, <<code, ref>>, key) ELSE NoSig,
                   key |-> key, xkey |-> xkey]] :
        code \in ProviderCodes(m), ref \in PaymentIds, key \in SenderKeys,
        xkey \in IF ReadsXSignature(m) THEN SenderKeys ELSE {"none"}}

WebhookRequests == UNION {WebhookRequestsOf(m) : m \in Methods}

UnmarkedRequest ==
    [headers |-> [marker |-> "none", marker_value |-> NoSig, x_signature |-> NoSig],
     payload |-> [body |-> <<>>, code |-> "any", ref |-> NoId, user1 |-> NoId,
                  sig |-> NoSig, key |-> "none", xkey |-> "none"]]

\* requests without any x-<provider>-signature header: an empty body, or a
\* body shaped like a provider's notification
UnmarkedRequests ==
    {UnmarkedRequest} \cup
    {[headers |-> UnmarkedRequest.headers, payload |-> w.payload] :
        w \in {x \in WebhookRequestsOf("mtn") : x.payload.key = "none"}}

\* webhook requests handled in the slots S, `budget` requests in all
Webhook(S, budget) ==
    \/ \E r \in S, w \in WebhookRequests :
          \E validated \in IF w.headers.marker = "payfast" THEN BOOLEAN ELSE {TRUE} :
            /\ started < budget
            /\ WebhookUpdatePayment(r, w.headers, w.payload, validated)
    \/ \E r \in S, w \in UnmarkedRequests :
          /\ started < budget
          /\ WebhookUpdatePayment(r, w.headers, w.payload, TRUE)
    \/ \E r \in S : WebhookUpdateOrder(r)
    \/ \E r \in S, sent \in BOOLEAN : WebhookSendEmail(r, sent)

\* -------------------- GET /payments/status/:id and POST /payments/verify
\* an id that no payment ever has
NoPayment == <<"mg", "nx", "1">>

\* the select without the owner filter
PaymentSelect_AnyUser(id, user) ==
    IF id \in DOMAIN payments THEN {id} ELSE {}

\* supabase.from('payments').select(...).eq('id', id).eq('user_id', user)
PaymentSelect(id, user) ==
    IF id \in DOMAIN payments /\ payments[id].user_id = user THEN {id} ELSE {}

\* the row exists and belongs to somebody else
ForeignPayment(id, user) == id \in DOMAIN payments /\ payments[id].user_id # user

PaymentStatus(r, caller, id) ==
    /\ Free(r)
    /\ started' = started + 1
    /\ LET step == [NoStep EXCEPT !.kind = "status", !.step = "select",
                                  !.foreign = ForeignPayment(id, caller)]
       IN  IF PaymentSelect(id, caller) = {}
           THEN Finish(r, step, Err(404, "Payment not found"))
           ELSE Finish(r, [step EXCEPT !.status = payments[id].status],
                       OkData(payments[id].status))
    /\ UNCHANGED <<now, secrets, node_env, orders, payments, emails, affiliate_stats>>

\* Answers of a provider's query endpoint: the transaction succeeded, it is
\* in some other state, or the call failed.
GatewayAnswers == {"success", "other", "error"}

Verified(status) == [outcome |-> "return", status |-> status]
VerifyThrown == [outcome |-> "throw", status |-> ""]

KoraVerifyPayment(answer) ==
    IF answer = "error" THEN VerifyThrown
    ELSE Verified(IF answer = "success" THEN "verified" ELSE "failed")
MtnVerifyPayment(answer) ==
    IF answer = "error" THEN VerifyThrown
    ELSE Verified(IF answer = "success" THEN "verified" ELSE "failed")
OrangeVerifyPayment(answer) ==
    IF answer = "error" THEN VerifyThrown
    ELSE Verified(IF answer = "success" THEN "verified" ELSE "failed")
PayGateVerifyPayment(answer) ==
    IF answer = "error" THEN VerifyThrown
    ELSE Verified(IF answer = "success" THEN "verified" ELSE "failed")
\* no query is made: the placeholder result is returned
PayFastVerifyPayment(answer) == Verified("verified")

VerifyPayment(m, answer) ==
    CASE m = "kora" -> KoraVerifyPayment(answer)
      [] m = "mtn" -> MtnVerifyPayment(answer)
      [] m = "orange" -> OrangeVerifyPayment(answer)
      [] m = "paygate" -> PayGateVerifyPayment(answer)
      [] OTHER -> PayFastVerifyPayment(answer)

\* verify writing the gateway's answer to the payment it names
PaymentVerify_Reconciles(r, caller, payment_id, answer) ==
    /\ Free(r)
    /\ started' = started + 1
    /\ LET step == [NoStep EXCEPT !.kind = "verify", !.step = "select",
                                  !.foreign = ForeignPayment(payment_id, caller)]
       IN  IF PaymentSelect(payment_id, caller) = {}
           THEN /\ Finish(r, step, Err(404, "Payment not found"))
                /\ UNCHANGED payments
           ELSE LET result == VerifyPayment(payments[payment_id].payment_method, answer)
                IN  /\ Finish(r, [step EXCEPT !.called = TRUE, !.status = result.status],
                              OkData(result.status))
                    /\ payments' = [payments EXCEPT ![payment_id].status =
                                        IF result.status = "verified" THEN "success" ELSE @]
    /\ UNCHANGED <<now, secrets, node_env, orders, emails, affiliate_stats>>

\* The payment is selected by id and owner and the adapter's verifyPayment
\* is awaited; nothing shared is read or written after the select, so the
\* adapter call and the response belong to the same step.
PaymentVerify(r, caller, payment_id, answer) ==
    /\ Free(r)
    /\ started' = started + 1
    /\ LET step == [NoStep EXCEPT !.kind = "verify", !.step = "select",
                                  !.foreign = ForeignPayment(payment_id, caller)]
       IN  IF payment_id = NoId
           THEN Finish(r, step, Err(400, "Payment ID is required"))
           ELSE IF PaymentSelect(payment_id, caller) = {}
           THEN Finish(r, step, Err(404, "Payment not found"))
           ELSE LET result == VerifyPayment(payments[payment_id].payment_method, answer)
                    step2 == [step EXCEPT !.called = TRUE]
                IN  IF result.outcome = "throw"
                    THEN Finish(r, step2,
                                ServerError("Payment verification failed: Verification failed"))
                    ELSE Finish(r, [step2 EXCEPT !.status = result.status],
                                OkData(result.status))
    /\ UNCHANGED <<now, secrets, node_env, orders, payments, emails, affiliate_stats>>

\* status and verify requests handled in the slots S
Query(S, budget) ==
    \/ \E r \in S, caller \in Users, id \in PaymentIds \cup {NoPayment} :
          /\ started < budget
          /\ PaymentStatus(r, caller, id)
    \/ \E r \in S, caller \in Users, id \in PaymentIds \cup {NoPayment, NoId},
          answer \in GatewayAnswers :
          /\ started < budget
          /\ PaymentVerify(r, caller, id, answer)

\* requests are handled concurrently, in any of the slots
Next == Tick \/ Initialize(Slots, MaxRequests) \/ Webhook(Slots, MaxRequests)

Spec == Init /\ [][Next]_vars

\* requests are handled one at a time, each to completion
SerialNext == Tick \/ Initialize({1}, MaxSerialRequests) \/ Webhook({1}, MaxSerialRequests)

SerialSpec == Init /\ [][SerialNext]_vars

\* all four routes, one request at a time
QueryNext ==
    \/ Tick
    \/ Initialize({1}, MaxQueryRequests)
    \/ Webhook({1}, MaxQueryRequests)
    \/ Query({1}, MaxQueryRequests)

QuerySpec == Init /\ [][QueryNext]_vars

\* any deployment: the secrets configured or not, NODE_ENV production or not
DeploymentInit ==
    /\ now = 1
    /\ secrets \in BOOLEAN
    /\ node_env \in {"production", "development"}
    /\ orders = [o \in OrderIds |->
                    [user_id |-> OrderOwner(o), payment_status |-> "pending",
                     status |-> "pending"]]
    /\ payments = <<>>
    /\ emails = [p \in PaymentIds |-> 0]
    /\ affiliate_stats = [o \in OrderIds |-> 0]
    /\ started = 0
    /\ req = [r \in Slots |-> IdleReq]
    /\ last = NoStep

DeploymentSpec == DeploymentInit /\ [][QueryNext]_vars

\* ================================================================ claims
Terminal == {"success", "failed"}

\* C1: once a Payment is `success` or `failed`, no later webhook delivery
\* changes its status, gateway transaction id, stored gateway response or
\* processed timestamp (so at most one delivery moves it out of `pending`).
C1_TerminalPaymentIsFinal ==
    [][\A p \in DOMAIN payments :
          payments[p].status \in Terminal => payments'[p] = payments[p]]_vars

\* C2: however often a success webhook for one Payment is delivered, the
\* order-confirmation email is dispatched exactly once for that Payment.
C2_OneConfirmationPerPayment ==
    \A p \in PaymentIds : emails[p] <= 1

\* C3: of two webhook requests for the same Payment that are in flight at
\* the same time, at most one gets past the payments update into the order
\* update and the notification.
C3_ConcurrentWebhooksOneWinner ==
    \A r1, r2 \in Slots :
        (r1 # r2 /\ req[r1].kind = "webhook" /\ req[r2].kind = "webhook")
            => req[r1].payment_id # req[r2].payment_id

\* C4: with the secrets configured, a webhook none of whose signatures was
\* computed with the provider's secret (a wrong or a missing signature) is
\* rejected with a non-200 answer and changes no Payment row.
C4_TamperedSignatureRejected ==
    (secrets /\ last.kind = "webhook" /\ last.step = "update_payment"
        /\ last.sender = "unkeyed")
        => (~last.applied /\ last.finished /\ last.res.status # 200)

\* C5: every Order has at most one Payment with status `success`.
C5_OneSuccessfulPaymentPerOrder ==
    \A o \in OrderIds :
        Cardinality({p \in DOMAIN payments :
                        payments[p].order_id = o /\ payments[p].status = "success"}) <= 1

\* C6: an Order's payment status is `pending`, `success` or `failed`, and once
\* it is no longer `pending` it never changes again.
C6_OrderPaymentStatusIsFinal ==
    [][\A o \in OrderIds :
          /\ orders'[o].payment_status \in {"pending", "success", "failed"}
          /\ orders[o].payment_status # "pending"
                => orders'[o].payment_status = orders[o].payment_status]_vars

\* an order that became `success` and whose only payment was then set to
\* `failed` by a later webhook
C6_Witness ==
    /\ orders["o1"].payment_status = "success"
    /\ Cardinality(DOMAIN payments) = 1
    /\ \E p \in DOMAIN payments : payments[p].status = "failed"

\* C7: the gateway's own success webhook for a pending attempt made through
\* that gateway finds the Payment row that initialize stored.
C7_GatewaySuccessWebhookFindsPayment ==
    (secrets /\ last.kind = "webhook" /\ last.step = "update_payment"
        /\ last.sender = "gateway" /\ last.attempt_own
        /\ last.attempt_status = "pending" /\ last.status = "success")
        => last.applied

\* C8: a webhook that passed verification and named an existing Payment is
\* answered with HTTP 200.
C8_ProcessedWebhookAnswers200 ==
    (last.kind = "webhook" /\ last.finished /\ last.applied)
        => last.res.status = 200

\* C9: when the adapter's initializePayment throws, the request ends with an
\* error and the set of Payment rows is what it was before.
C9_FailedInitiateLeavesNoPayment ==
    [][(last'.kind = "initialize" /\ last'.step = "gateway" /\ last'.res.status # 200
          /\ last'.finished)
          => (payments' = payments /\ ~last'.inserted)]_vars

\* an initialize request whose adapter call has just thrown
C9_Witness ==
    /\ last.kind = "initialize"
    /\ last.step = "gateway"
    /\ last.finished
    /\ last.res.status = 500

AlreadyProcessed == Err(400, "Order payment has already been processed")

\* C10: initialize on an order whose payment status is not `pending` ends
\* with the already-processed error, calls no adapter and creates no Payment.
C10_ResolvedOrderIsNotReinitialized ==
    [][(last'.kind = "initialize" /\ last'.step = "receive"
          /\ last'.order_payment_status \notin {"", "pending"})
          => (last'.finished /\ last'.res = AlreadyProcessed /\ ~last'.called
              /\ payments' = payments)]_vars

\* an initialize request for an order that a webhook has set to `success`
C10_Witness ==
    /\ last.kind = "initialize"
    /\ last.step = "receive"
    /\ last.order_payment_status = "success"
    /\ last.finished

InitializeInputs ==
    [caller : Users, order_id : OrderIds \cup {"", "nx"},
     payment_method : Methods \cup {"", "bogus"}, phone_number : BOOLEAN]

\* the step just taken is the receipt of initialize request i in slot r
ReceivedInitialize(r, i) ==
    InitializeReceive(r, i.caller, i.order_id, i.payment_method, i.phone_number)

\* C11: initialize with one of the five methods that is not available in the
\* caller's country fails, calls no gateway and creates no Payment row.
C11_UnavailableMethodIsRefused ==
    [][(last'.kind = "initialize" /\ last'.step = "receive")
          => \A r \in Slots, i \in InitializeInputs :
                (/\ i.payment_method \in Methods
                 /\ ~IsAvailableInCountry(i.payment_method, UserCountry(i.caller))
                 /\ ReceivedInitialize(r, i))
                => (/\ last'.finished
                    /\ last'.res.status # 200
                    /\ ~last'.called
                    /\ payments' = payments)]_vars

OrderNotFound == Err(404, "Order not found")
PaymentNotFound == Err(404, "Payment not found")

\* C12: initialize, status and verify by a caller who does not own the order
\* or payment named are answered like the same request naming an id that
\* does not exist, with NotFound; no gateway is called and no row changes.
C12_ForeignRowsLookNonexistent ==
    [][/\ (last'.kind = "initialize" /\ last'.step = "receive")
            => \A r \in Slots, i \in InitializeInputs :
                  (/\ i.order_id # "" /\ i.payment_method # ""
                   /\ (i.order_id \notin OrderIds \/ orders[i.order_id].user_id # i.caller)
                   /\ ReceivedInitialize(r, i))
                  => (/\ last'.res = OrderNotFound
                      /\ last'.finished /\ ~last'.called
                      /\ payments' = payments /\ orders' = orders)
       /\ last'.kind = "status"
            => \A r \in Slots, caller \in Users, id \in PaymentIds \cup {NoPayment} :
                  (/\ (id \notin DOMAIN payments \/ ForeignPayment(id, caller))
                   /\ PaymentStatus(r, caller, id))
                  => (/\ last'.res = PaymentNotFound
                      /\ payments' = payments /\ orders' = orders)
       /\ last'.kind = "verify"
            => \A r \in Slots, caller \in Users, id \in PaymentIds \cup {NoPayment},
                  answer \in GatewayAnswers :
                  (/\ (id \notin DOMAIN payments \/ ForeignPayment(id, caller))
                   /\ PaymentVerify(r, caller, id, answer))
                  => (/\ last'.res = PaymentNotFound
                      /\ ~last'.called
                      /\ payments' = payments /\ orders' = orders)]_vars

\* a verify request naming a payment that exists and belongs to another user
C12_Witness ==
    /\ last.kind = "verify"
    /\ last.foreign
    /\ last.finished

\* C13: a webhook request without any of the five provider markers is
\* answered with a non-200 status and changes no Payment or Order row.
C13_UnmarkedWebhookIsRejected ==
    [][(last'.kind = "webhook" /\ last'.step = "update_payment")
          => \A r \in Slots, w \in UnmarkedRequests :
                WebhookUpdatePayment(r, w.headers, w.payload, TRUE)
                => (/\ last'.finished
                    /\ last'.res.status \notin {0, 200}
                    /\ payments' = payments /\ orders' = orders)]_vars

\* an unmarked request whose body names a pending payment has been refused
C13_Witness ==
    /\ last.kind = "webhook"
    /\ last.res = Err(400, "Unknown webhook source")
    /\ last.attempt_status = "pending"

PhoneRequired == Err(400, "Phone number is required for mobile money payments")

\* C14: initialize with method mtn or orange and no phone number ends with
\* an error before any gateway call and creates no Payment row; for an order
\* the caller may pay, the error is the phone-number ValidationError.
C14_MobileMoneyNeedsPhone ==
    [][(last'.kind = "initialize" /\ last'.step = "receive")
          => \A r \in Slots, i \in InitializeInputs :
                (/\ i.payment_method \in {"mtn", "orange"}
                 /\ ~i.phone_number
                 /\ ReceivedInitialize(r, i))
                => (/\ last'.finished
                    /\ last'.res.status \in {400, 404}
                    /\ ~last'.called
                    /\ payments' = payments
                    /\ last'.order_payment_status = "pending" => last'.res = PhoneRequired)]_vars

\* a mobile-money initialize for a payable order refused for its missing phone
C14_Witness ==
    /\ last.kind = "initialize"
    /\ last.order_payment_status = "pending"
    /\ last.res = PhoneRequired
    /\ last.finished

\* C15: verify of a PayFast payment, for which there is no query endpoint,
\* never reports the payment as verified.
C15_PayFastVerifyIsUnavailable ==
    [][last'.kind = "verify"
          => \A r \in Slots, caller \in Users, id \in PaymentIds, answer \in GatewayAnswers :
                (/\ id \in DOMAIN payments
                 /\ payments[id].payment_method = "payfast"
                 /\ PaymentVerify(r, caller, id, answer))
                => last'.res.data # "verified"]_vars

\* the gateway has accepted attempt `id` made through method m
Accepted(id, m) ==
    \/ id \in DOMAIN payments /\ payments[id].payment_method = m
    \/ \E q \in Slots : /\ req[q].kind = "initialize" /\ req[q].pc = "insert"
                        /\ req[q].payment_id = id /\ req[q].method = m

\* C16: when the gateway delivers a webhook for an attempt it has accepted,
\* the attempt's Payment row already exists.
C16_PaymentRowPrecedesWebhook ==
    [][(last'.kind = "webhook" /\ last'.step = "update_payment"
          /\ last'.sender = "gateway")
          => \A r \in Slots, w \in WebhookRequests :
                (/\ Accepted(w.payload.ref, w.headers.marker)
                 /\ Sender(w.headers, w.payload, TRUE) = "gateway"
                 /\ WebhookUpdatePayment(r, w.headers, w.payload, TRUE))
                => w.payload.ref \in DOMAIN payments]_vars

\* C17: when a webhook has set a pending Payment of an order that awaits
\* payment to `failed` and answered, the order's payment status is `failed`
\* and its fulfillment status is what it was.
C17_FailedWebhookFailsOrder ==
    [][(last'.kind = "webhook" /\ last'.finished)
          => \A p \in DOMAIN payments :
                (/\ payments[p].status = "pending"
                 /\ payments'[p].status = "failed"
                 /\ orders[payments[p].order_id].payment_status = "pending")
                => (/\ orders'[payments[p].order_id].payment_status = "failed"
                    /\ orders'[payments[p].order_id].status
                         = orders[payments[p].order_id].status)]_vars

\* C18: while an order has a Payment that a webhook set to `failed`, every
\* initialize for that order by its owner is refused by the payment-status
\* guard.
C18_FailedOrderCannotRetry ==
    [][(last'.kind = "initialize" /\ last'.step = "receive")
          => \A r \in Slots, i \in InitializeInputs :
                (/\ i.order_id \in OrderIds /\ i.payment_method # ""
                 /\ orders[i.order_id].user_id = i.caller
                 /\ \E p \in DOMAIN payments :
                       payments[p].order_id = i.order_id /\ payments[p].status = "failed"
                 /\ ReceivedInitialize(r, i))
                => (last'.finished /\ last'.res = AlreadyProcessed /\ ~last'.called)]_vars

PaymentStatuses == {"pending", "success", "failed"}

\* C19: every Payment row's status is `pending`, `success` or `failed`, and
\* the status an adapter's handleWebhook returns for a provider status code
\* is one of these three.
C19_PaymentStatusIsTriState ==
    /\ \A p \in DOMAIN payments : payments[p].status \in PaymentStatuses
    /\ (last.kind = "webhook" /\ last.step = "update_payment"
          /\ last.status \notin {"throw", "null"})
          => last.status \in PaymentStatuses

\* C20: an Order whose fulfillment status is `paid` has payment status
\* `success`.
C20_PaidImpliesPaymentSuccess ==
    \A o \in OrderIds : orders[o].status = "paid" => orders[o].payment_status = "success"

\* an order that a success webhook has marked paid
C20_Witness ==
    \E o \in OrderIds : orders[o].status = "paid"

\* C21: initialize, status and verify leave every Order row unchanged, and
\* status and verify leave every Payment row unchanged, whatever the gateway
\* answers to the verification query.
C21_OnlyWebhookWritesOrders ==
    [][/\ last'.kind \in {"initialize", "status", "verify"} => orders' = orders
       /\ last'.kind \in {"status", "verify"} => payments' = payments]_vars

\* verify has reported `verified` for a payment that is still pending
C21_Witness ==
    /\ last.kind = "verify"
    /\ last.called
    /\ last.res = OkData("verified")
    /\ \E p \in DOMAIN payments : payments[p].status = "pending"

\* C22: whether or not the confirmation email could be sent, the step that
\* sends it ends the webhook request in one and the same way: same response,
\* Payment and Order rows untouched, the Order still `success` / `paid`.
C22_EmailFailureChangesNothing ==
    [][(last'.kind = "webhook" /\ last'.step = "send_email")
          => \A r \in Slots :
                WebhookSendEmail(r, FALSE)
                => (/\ WebhookSendEmail(r, TRUE)
                    /\ payments' = payments
                    /\ orders' = orders
                    /\ orders'[req[r].order].payment_status = "success"
                    /\ orders'[req[r].order].status = "paid")]_vars

\* a success webhook has passed its email step and been answered, its
\* Payment `success` and its Order paid
C22_Witness ==
    /\ last.kind = "webhook"
    /\ last.step = "send_email"
    /\ last.finished
    /\ \E p \in DOMAIN payments :
          /\ payments[p].status = "success"
          /\ orders[payments[p].order_id].status = "paid"

\* C23: once a success webhook for an order placed with an affiliate promo
\* code has been answered, exactly one affiliate_stats record exists for
\* the order.
C23_AffiliateCommissionRecorded ==
    (last.kind = "webhook" /\ last.step = "send_email" /\ last.finished)
        => \A o \in OrderIds :
              (HasAffiliatePromo(o) /\ orders[o].payment_status = "success")
                  => affiliate_stats[o] = 1

\* C24: a webhook whose parsed payment id matches no Payment row is answered
\* with an error and changes no Payment or Order row and sends no email.
C24_UnknownPaymentIsRejected ==
    [][(last'.kind = "webhook" /\ last'.step = "update_payment"
          /\ last'.status \notin {"throw", "null"} /\ ~last'.parsed_row)
          => (/\ last'.finished
              /\ last'.res.status \notin {0, 200}
              /\ payments' = payments /\ orders' = orders
              /\ emails' = emails)]_vars

\* a webhook whose adapter returned an update has found no row to update,
\* while a payment exists
C24_Witness ==
    /\ last.kind = "webhook"
    /\ last.res = Err(400, "Failed to update payment record")
    /\ last.status \in PaymentStatuses
    /\ DOMAIN payments # {}

\* C25: the payment id an initialize attempt is given differs from the id of
\* every Payment stored and of every other attempt in flight, also when the
\* attempts are made at the same clock value.
C25_AttemptIdsAreUnique ==
    [][\A r \in Slots :
          (req[r].pc = "gateway" /\ req'[r].pc = "insert")
          => (/\ req'[r].payment_id \notin DOMAIN payments
              /\ \A q \in Slots \ {r} :
                    req[q].pc = "insert" => req[q].payment_id # req'[r].payment_id)]_vars

\* C26: initialize by the owner of a payable order with a method id that is
\* none of the five fails with a client error (4xx), calls no gateway and
\* creates no Payment row.
C26_UnknownMethodIsClientError ==
    [][(last'.kind = "initialize" /\ last'.step = "receive")
          => \A r \in Slots, i \in InitializeInputs :
                (/\ i.payment_method = "bogus"
                 /\ i.order_id \in OrderIds
                 /\ orders[i.order_id].user_id = i.caller
                 /\ orders[i.order_id].payment_status = "pending"
                 /\ ReceivedInitialize(r, i))
                => (/\ last'.finished
                    /\ last'.res.status \in 400..499
                    /\ ~last'.called
                    /\ payments' = payments)]_vars

\* the step just taken is the receipt of webhook request w in slot r
ReceivedWebhook(r, w) ==
    /\ req[r].pc = "idle"
    /\ last'.sender = Sender(w.headers, w.payload, TRUE)
    /\ last'.attempt_status = (IF w.payload.ref \in DOMAIN payments
                               THEN payments[w.payload.ref].status ELSE "")
    /\ WebhookUpdatePayment(r, w.headers, w.payload, TRUE)

\* the adapters that check webhooks against a configured secret
SecretAdapters == {"kora", "orange", "paygate", "payfast"}
SecretAdapterRequests == UNION {WebhookRequestsOf(m) : m \in SecretAdapters}

\* C27: while the webhook secrets are not configured, no webhook of an
\* adapter that needs one is accepted: each is answered with an error and
\* changes no Payment or Order row.
C27_UnconfiguredSecretRejectsWebhooks ==
    [][(~secrets /\ last'.kind = "webhook" /\ last'.step = "update_payment")
          => \A r \in Slots, w \in SecretAdapterRequests :
                ReceivedWebhook(r, w)
                => (/\ last'.finished
                    /\ last'.res.status \notin {0, 200}
                    /\ payments' = payments /\ orders' = orders)]_vars

\* C28: an initialize request that failed at the gateway is answered the same
\* whatever error detail the provider gave.
C28_ProviderDetailStaysInside ==
    [][(last'.kind = "initialize" /\ last'.step = "gateway" /\ last'.finished)
          => \A r \in Slots, d1, d2 \in ProviderDetails :
                InitializeGateway(r, FALSE, d1) => InitializeGateway(r, FALSE, d2)]_vars

\* C29: when no webhook request is in progress, an Order has payment status
\* `success` exactly if one of its Payments has status `success`.
C29_OrderMatchesItsPayments ==
    (\A r \in Slots : req[r].kind # "webhook")
        => \A o \in OrderIds :
              orders[o].payment_status = "success"
                  <=> \E p \in DOMAIN payments :
                         payments[p].order_id = o /\ payments[p].status = "success"

\* provider status codes for which handleWebhook returns nothing
UnmappedCode(m) ==
    CASE m = "kora" -> "charge.other"
      [] m = "mtn" -> "PENDING"
      [] OTHER -> "INITIATED"

NoResultRequests ==
    {w \in WebhookRequests :
        /\ w.headers.marker \in {"kora", "mtn", "orange"}
        /\ w.payload.code = UnmappedCode(w.headers.marker)}

\* C30: a Kora, MTN or Orange webhook with a status code for which the
\* adapter returns no result is answered with an error and changes no
\* Payment or Order row.
C30_NoResultIsRejected ==
    [][(last'.kind = "webhook" /\ last'.step = "update_payment")
          => \A r \in Slots, w \in NoResultRequests :
                ReceivedWebhook(r, w)
                => (/\ last'.finished
                    /\ last'.res.status \notin {0, 200}
                    /\ payments' = payments /\ orders' = orders)]_vars

\* a webhook naming a pending payment for which the adapter returned nothing
C30_Witness ==
    /\ last.kind = "webhook"
    /\ last.status = "null"
    /\ last.attempt_status = "pending"
    /\ last.finished
====
